---------------------------- MODULE Spec2Model ----------------------------
(***************************************************************************)
(* The tegrastats exporter: the sampling worker of gpu_module.py           *)
(* (GpuModule._process_gpu_stats_forever and the methods it calls), the    *)
(* Prometheus sink of db_prometheus.py (DataBaseProm.store) and a scrape   *)
(* of the registry running in the exporter's HTTP thread.                  *)
(*                                                                         *)
(* A Python str is a sequence of one-character strings, so that split,     *)
(* strip, replace, slicing, int(), str() and float() are computed on the   *)
(* characters as the interpreter computes them.                            *)
(***************************************************************************)
EXTENDS Integers, Sequences, FiniteSets, TLC

-----------------------------------------------------------------------------
(* Python str operations used by gpu_module.py and db_prometheus.py *)

\* Once(x, F) is F(x), with x evaluated a single time however often F uses it
\* (TLC evaluates an operator's argument at each of its uses)
Once(x, F(_)) == CHOOSE r \in {F(v) : v \in {x}} : TRUE

Digits == <<"0", "1", "2", "3", "4", "5", "6", "7", "8", "9">>

Whitespace == {" ", "\n", "\t"}

IsDigit(c) == \E i \in 1..10 : Digits[i] = c

DigitValue(c) == (CHOOSE i \in 1..10 : Digits[i] = c) - 1

\* int(s) raises ValueError unless s is a non-empty run of decimal digits
IsInt(s) == Once(s, LAMBDA v : Len(v) > 0 /\ \A i \in 1..Len(v) : IsDigit(v[i]))

RECURSIVE IntOfPrefix(_, _)
IntOfPrefix(s, n) ==
    IF n = 0 THEN 0 ELSE 10 * IntOfPrefix(s, n - 1) + DigitValue(s[n])

\* int(s) of a run of digits
ToInt(s) == Once(s, LAMBDA v : IntOfPrefix(v, Len(v)))

RECURSIVE StrOf(_)
StrOf(n) ==
    IF n < 10 THEN <<Digits[n + 1]>>
    ELSE StrOf(n \div 10) \o <<Digits[(n % 10) + 1]>>

\* str(n) for n >= 0
Str(n) == Once(n, StrOf)

\* s.split(c): the pieces between the occurrences of c, at least one piece
RECURSIVE SplitFrom(_, _, _, _)
SplitFrom(s, c, i, cur) ==
    IF i > Len(s) THEN <<cur>>
    ELSE IF s[i] = c THEN <<cur>> \o SplitFrom(s, c, i + 1, <<>>)
    ELSE SplitFrom(s, c, i + 1, Append(cur, s[i]))

Split(s, c) == Once(s, LAMBDA v : SplitFrom(v, c, 1, <<>>))

\* s.split(): the maximal runs of non-whitespace characters
RECURSIVE SplitWsFrom(_, _, _)
SplitWsFrom(s, i, cur) ==
    IF i > Len(s) THEN Once(cur, LAMBDA w : IF w = <<>> THEN <<>> ELSE <<w>>)
    ELSE IF s[i] \in Whitespace
         THEN Once(cur, LAMBDA w : IF w = <<>> THEN <<>> ELSE <<w>>)
              \o SplitWsFrom(s, i + 1, <<>>)
         ELSE SplitWsFrom(s, i + 1, Append(cur, s[i]))

SplitWs(s) == Once(s, LAMBDA v : SplitWsFrom(v, 1, <<>>))

\* s.strip(): without the whitespace before its first and after its last
\* character that is none
Strip(s) ==
    Once(s, LAMBDA v :
        LET keep == {i \in 1..Len(v) : v[i] \notin Whitespace}
        IN  IF keep = {} THEN <<>>
            ELSE SubSeq(v, CHOOSE i \in keep : \A j \in keep : i <= j,
                           CHOOSE i \in keep : \A j \in keep : i >= j))

\* s.replace(c, "")
Remove(s, c) == SelectSeq(s, LAMBDA x : x # c)

\* sub in s
Contains(s, sub) ==
    Once(s, LAMBDA v :
        \E i \in 1..(Len(v) - Len(sub) + 1) : SubSeq(v, i, i + Len(sub) - 1) = sub)

\* s[:-1]
DropLast(s) == Once(s, LAMBDA v : SubSeq(v, 1, Len(v) - 1))

\* xs[1:-1]
Inner(xs) == Once(xs, LAMBDA v : SubSeq(v, 2, Len(v) - 1))

\* xs[-1]
Last(xs) == Once(xs, LAMBDA v : v[Len(v)])

\* s.lower() on the ASCII letters
Upper == <<"A","B","C","D","E","F","G","H","I","J","K","L","M",
           "N","O","P","Q","R","S","T","U","V","W","X","Y","Z">>
Lowercase == <<"a","b","c","d","e","f","g","h","i","j","k","l","m",
               "n","o","p","q","r","s","t","u","v","w","x","y","z">>

LowerChar(c) ==
    IF \E i \in 1..26 : Upper[i] = c
    THEN Lowercase[CHOOSE i \in 1..26 : Upper[i] = c]
    ELSE c

Lower(s) == Once(s, LAMBDA v : [i \in 1..Len(v) |-> LowerChar(v[i])])

-----------------------------------------------------------------------------
(* String literals of the source *)

K_RAM == <<"R", "A", "M">>
K_CPU == <<"C", "P", "U">>
K_EMC_FREQ == <<"E", "M", "C", "_", "F", "R", "E", "Q">>
K_EMC_UTIL == <<"E", "M", "C", "_", "U", "T", "I", "L">>
K_GR3D_FREQ == <<"G", "R", "3", "D", "_", "F", "R", "E", "Q">>
K_GPU_UTIL == <<"G", "P", "U", "_", "U", "T", "I", "L">>
K_GPU_FREQ == <<"G", "P", "U", "_", "F", "R", "E", "Q">>
K_GPU_TEMP == <<"G", "P", "U", "_", "T", "E", "M", "P">>
K_CPU_TEMP == <<"C", "P", "U", "_", "T", "E", "M", "P">>
K_NVENC == <<"N", "V", "E", "N", "C">>
K_NVENC1 == <<"N", "V", "E", "N", "C", "1">>
K_NVDEC == <<"N", "V", "D", "E", "C">>
K_NVDEC1 == <<"N", "V", "D", "E", "C", "1">>
K_off == <<"o", "f", "f">>

M_gpu_util == <<"t", "e", "g", "r", "a", "s", "t", "a", "t", "s", "_", "g", "p", "u", "_", "u", "t", "i", "l">>
M_gpu_freq == <<"t", "e", "g", "r", "a", "s", "t", "a", "t", "s", "_", "g", "p", "u", "_", "f", "r", "e", "q">>
M_gpu_temp == <<"t", "e", "g", "r", "a", "s", "t", "a", "t", "s", "_", "g", "p", "u", "_", "t", "e", "m", "p">>
M_cpu_temp == <<"t", "e", "g", "r", "a", "s", "t", "a", "t", "s", "_", "c", "p", "u", "_", "t", "e", "m", "p">>
M_cpu_usage == <<"t", "e", "g", "r", "a", "s", "t", "a", "t", "s", "_", "c", "p", "u", "_", "u", "s", "a", "g", "e">>
M_ram_usage == <<"t", "e", "g", "r", "a", "s", "t", "a", "t", "s", "_", "r", "a", "m", "_", "u", "s", "a", "g", "e">>
M_emc_util == <<"t", "e", "g", "r", "a", "s", "t", "a", "t", "s", "_", "e", "m", "c", "_", "u", "t", "i", "l">>
M_emc_freq == <<"t", "e", "g", "r", "a", "s", "t", "a", "t", "s", "_", "e", "m", "c", "_", "f", "r", "e", "q">>
M_nvenc_freq == <<"t", "e", "g", "r", "a", "s", "t", "a", "t", "s", "_", "n", "v", "e", "n", "c", "_", "f", "r", "e", "q">>
M_nvenc1_freq == <<"t", "e", "g", "r", "a", "s", "t", "a", "t", "s", "_", "n", "v", "e", "n", "c", "1", "_", "f", "r", "e", "q">>
M_nvdec_freq == <<"t", "e", "g", "r", "a", "s", "t", "a", "t", "s", "_", "n", "v", "d", "e", "c", "_", "f", "r", "e", "q">>
M_nvdec1_freq == <<"t", "e", "g", "r", "a", "s", "t", "a", "t", "s", "_", "n", "v", "d", "e", "c", "1", "_", "f", "r", "e", "q">>
M_per_process_gpu_mem == <<"t", "e", "g", "r", "a", "s", "t", "a", "t", "s", "_", "p", "e", "r", "_", "p", "r", "o", "c", "e", "s", "s", "_", "g", "p", "u", "_", "m", "e", "m">>

\* the factor of "* 1000000" and "int(1E6)"
MHz == 1000000

-----------------------------------------------------------------------------
(* Python dict: insertion-ordered keys with their values *)

EmptyDict == [keys |-> <<>>, vals |-> <<>>]

Has(d, k) == \E i \in 1..Len(d.keys) : d.keys[i] = k

IndexOf(d, k) == CHOOSE i \in 1..Len(d.keys) : d.keys[i] = k

Get(d, k) == Once(d, LAMBDA v : v.vals[IndexOf(v, k)])

\* d[k] = v
Put(d, k, v) ==
    Once(d, LAMBDA e :
        IF Has(e, k)
        THEN [e EXCEPT !.vals[IndexOf(e, k)] = v]
        ELSE [keys |-> Append(e.keys, k), vals |-> Append(e.vals, v)])

-----------------------------------------------------------------------------
(* GpuModule._parse_tegra_stats: one call consumes the next token and, for *)
(* a field key that takes a payload, the token after it.  A cursor st is   *)
(* [buf, pos, raised]: the buffer, the iterator's position in the tokens   *)
(* and whether an exception has been raised.                               *)

\* next(tegra_stats_iter) without a default raises StopIteration at the end
Exhausted(st, tokens) == st.pos > Len(tokens)

Raise(st) == [st EXCEPT !.raised = TRUE]

if_RAM(st, entity, tokens) ==
    IF st.raised \/ entity # K_RAM THEN st
    ELSE IF Exhausted(st, tokens) THEN Raise(st)
    ELSE Once(Split(tokens[st.pos], "/")[1], LAMBDA ram_info :
             [st EXCEPT !.buf = Put(@, entity, ram_info), !.pos = @ + 1])

\* the CPU branch without its "not in tegra_stats_buffer.keys()" guard
if_CPU_overwrite(st, entity, tokens) ==
    IF st.raised \/ entity # K_CPU THEN st
    ELSE IF Exhausted(st, tokens) THEN Raise(st)
    ELSE Once(Split(Remove(Remove(tokens[st.pos], "["), "]"), ","), LAMBDA parts :
             LET cpu_info == [i \in 1..Len(parts) |-> Split(parts[i], "%")[1]]
             IN  [st EXCEPT !.buf = Put(@, entity, cpu_info), !.pos = @ + 1])

if_CPU(st, entity, tokens) ==
    IF st.raised \/ entity # K_CPU THEN st
    ELSE IF Exhausted(st, tokens) THEN Raise(st)
    ELSE Once(Split(Remove(Remove(tokens[st.pos], "["), "]"), ","), LAMBDA parts :
             LET cpu_info == [i \in 1..Len(parts) |-> Split(parts[i], "%")[1]]
             IN  [st EXCEPT !.buf = IF Has(@, entity) THEN @ ELSE Put(@, entity, cpu_info),
                            !.pos = @ + 1])

if_EMC_FREQ(st, entity, tokens) ==
    IF st.raised \/ entity # K_EMC_FREQ THEN st
    ELSE IF Exhausted(st, tokens) THEN Raise(st)
    ELSE Once(Last(Split(tokens[st.pos], "@")), LAMBDA mhz :
             LET emc_util == Split(tokens[st.pos], "%")[1]
             IN  IF ~IsInt(mhz) THEN Raise([st EXCEPT !.pos = @ + 1])
                 ELSE [st EXCEPT !.buf = Put(Put(@, K_EMC_UTIL, emc_util),
                                             K_EMC_FREQ, Str(ToInt(mhz) * MHz)),
                                 !.pos = @ + 1])

if_GR3D_FREQ(st, entity, tokens) ==
    IF st.raised \/ entity # K_GR3D_FREQ THEN st
    ELSE IF Exhausted(st, tokens) THEN Raise(st)
    ELSE Once(Split(Remove(Remove(Last(Split(tokens[st.pos], "@")), "["), "]"), ","),
              LAMBDA parts :
                 LET gpu_util == Split(tokens[st.pos], "%")[1]
                     gpu_freq == [i \in 1..Len(parts) |-> Str(ToInt(parts[i]) * MHz)]
                 IN  IF \E i \in 1..Len(parts) : ~IsInt(parts[i])
                     THEN Raise([st EXCEPT !.pos = @ + 1])
                     ELSE [st EXCEPT !.buf = Put(Put(@, K_GPU_UTIL, gpu_util),
                                                 K_GPU_FREQ, gpu_freq),
                                     !.pos = @ + 1])

if_NV(st, entity, tokens) ==
    IF st.raised \/ entity \notin {K_NVENC, K_NVENC1, K_NVDEC, K_NVDEC1} THEN st
    ELSE IF Exhausted(st, tokens) THEN Raise(st)
    ELSE Once(Last(Split(tokens[st.pos], "@")), LAMBDA mhz :
             IF tokens[st.pos] = K_off THEN [st EXCEPT !.pos = @ + 1]
             ELSE IF ~IsInt(mhz) THEN Raise([st EXCEPT !.pos = @ + 1])
             ELSE [st EXCEPT !.buf = Put(@, entity, Str(ToInt(mhz) * MHz)),
                             !.pos = @ + 1])

if_GPU_TEMP(st, entity) ==
    IF st.raised \/ ~(Contains(entity, <<"G", "P", "U", "@">>) \/ Contains(entity, <<"g", "p", "u", "@">>)) THEN st
    ELSE [st EXCEPT !.buf = Put(@, K_GPU_TEMP, DropLast(Split(entity, "@")[2]))]

if_CPU_TEMP(st, entity) ==
    IF st.raised \/ ~(Contains(entity, <<"C", "P", "U", "@">>) \/ Contains(entity, <<"c", "p", "u", "@">>)) THEN st
    ELSE [st EXCEPT !.buf = Put(@, K_CPU_TEMP, DropLast(Split(entity, "@")[2]))]

\* the "if" statements of one call, in the order of the source
the_ifs(s0, entity, tokens) ==
    Once(if_RAM(s0, entity, tokens), LAMBDA s1 :
    Once(if_CPU(s1, entity, tokens), LAMBDA s2 :
    Once(if_EMC_FREQ(s2, entity, tokens), LAMBDA s3 :
    Once(if_GR3D_FREQ(s3, entity, tokens), LAMBDA s4 :
    Once(if_NV(s4, entity, tokens), LAMBDA s5 :
    Once(if_GPU_TEMP(s5, entity), LAMBDA s6 :
         if_CPU_TEMP(s6, entity)))))))

\* the result: the cursor after the call and whether the call returned None
parse_tegra_stats(tegra_stats_buffer, tokens, pos) ==
    IF pos > Len(tokens)
    THEN [buf |-> tegra_stats_buffer, pos |-> pos, raised |-> FALSE, none |-> TRUE]
    ELSE Once([buf |-> tegra_stats_buffer, pos |-> pos + 1, raised |-> FALSE,
               none |-> FALSE],
              LAMBDA s0 : the_ifs(s0, tokens[pos], tokens))

\* the inner "while True" of _process_gpu_stats_forever: the buffer of the
\* whole line, or raised
RECURSIVE parse_loop(_, _)
parse_loop(r, tokens) ==
    IF r.raised THEN [raised |-> TRUE, buf |-> r.buf]
    ELSE IF r.none THEN [raised |-> FALSE, buf |-> r.buf]
    ELSE Once(parse_tegra_stats(r.buf, tokens, r.pos),
              LAMBDA next : parse_loop(next, tokens))

\* lines 277-289 on the text of self.tegra_stats
tokenize(tegra_stats) ==
    Once(Split(tegra_stats, " "), LAMBDA tokens :
        Once(parse_tegra_stats(EmptyDict, tokens, 1),
             LAMBDA first : parse_loop(first, tokens)))

-----------------------------------------------------------------------------
(* GpuModule._parse_per_process_gpu_stats *)

RECURSIVE parse_lines(_, _, _)
parse_lines(lines, i, process_mem_usage) ==
    IF i > Len(lines) THEN [raised |-> FALSE, map |-> process_mem_usage]
    ELSE Once(<<SplitWs(lines[i]), process_mem_usage>>, LAMBDA a :
             LET process_info == a[1]
             IN  IF Len(process_info) < 4                    \* IndexError
                 THEN [raised |-> TRUE, map |-> a[2]]
                 ELSE IF ~IsInt(DropLast(process_info[4]))   \* ValueError
                 THEN [raised |-> TRUE, map |-> a[2]]
                 ELSE parse_lines(lines, i + 1,
                         Put(a[2], process_info[2], ToInt(DropLast(process_info[4])))))

parse_per_process_gpu_stats(per_process_usage) ==
    Once(Inner(Split(per_process_usage, "\n")),
         LAMBDA lines : parse_lines(lines, 1, EmptyDict))

-----------------------------------------------------------------------------
(* GpuModule.store_gpu_event: the message GpuEvent(...).to_dict() hands to  *)
(* the sink.  A value is a str (parsed text), an int (kilobytes) or the    *)
(* float 0.0 of the zeroing path; "index" is present only when passed.     *)

PyStr(s) == [ty |-> "str", v |-> s]
PyInt(n) == [ty |-> "int", v |-> n]
PyFloat(n) == [ty |-> "float", v |-> n]

\* GpuEvent(metric_name, metric_value, metric_key): the name as key, the
\* key as label
store_gpu_event_swapped(metric_value, metric_name, metric_key, has_index, index) ==
    [key |-> metric_name, value |-> metric_value, label |-> metric_key,
     has_index |-> has_index, index |-> index]

store_gpu_event(metric_value, metric_name, metric_key, has_index, index) ==
    [key |-> metric_key, value |-> metric_value, label |-> metric_name,
     has_index |-> has_index, index |-> index]

\* one iteration of a loop of _produce_gpu_event or _nullify_gpu_data: the
\* store call and, when add is set, the metric_set[ms_key].add(ms_id) after it
Emit(msg, add, ms_key, ms_id) ==
    [msg |-> msg, add |-> add, ms_key |-> ms_key, ms_id |-> ms_id]

Scalar(v, field, metric) ==
    <<Emit(store_gpu_event(PyStr(v), field, metric, FALSE, 0), TRUE, field, metric)>>

\* the GPU_FREQ branch calling the sink without the index of the cluster
RECURSIVE gpu_freq_events_unindexed(_, _)
gpu_freq_events_unindexed(v, i) ==
    IF i > Len(v) THEN <<>>
    ELSE <<Emit(store_gpu_event(PyStr(v[i]), K_GPU_FREQ, M_gpu_freq, FALSE, 0),
                TRUE, K_GPU_FREQ, M_gpu_freq \o <<"_">> \o Str(i - 1))>>
         \o gpu_freq_events_unindexed(v, i + 1)

RECURSIVE gpu_freq_events(_, _)
gpu_freq_events(v, i) ==
    IF i > Len(v) THEN <<>>
    ELSE <<Emit(store_gpu_event(PyStr(v[i]), K_GPU_FREQ, M_gpu_freq, TRUE, i - 1),
                TRUE, K_GPU_FREQ, M_gpu_freq \o <<"_">> \o Str(i - 1))>>
         \o gpu_freq_events(v, i + 1)

\* the enumerate of the CPU branch counting only the cores that are not off
RECURSIVE cpu_events_renumbered(_, _)
cpu_events_renumbered(v, i) ==
    IF i > Len(v) THEN <<>>
    ELSE (IF v[i] # K_off
          THEN LET cpu_id == Cardinality({j \in 1..(i - 1) : v[j] # K_off})
               IN  <<Emit(store_gpu_event(PyStr(v[i]), K_CPU, M_cpu_usage, TRUE, cpu_id),
                          TRUE, K_CPU, M_cpu_usage \o <<"_">> \o Str(cpu_id))>>
          ELSE <<>>)
         \o cpu_events_renumbered(v, i + 1)

RECURSIVE cpu_events(_, _)
cpu_events(v, i) ==
    IF i > Len(v) THEN <<>>
    ELSE (IF v[i] # K_off
          THEN <<Emit(store_gpu_event(PyStr(v[i]), K_CPU, M_cpu_usage, TRUE, i - 1),
                      TRUE, K_CPU, M_cpu_usage \o <<"_">> \o Str(i - 1))>>
          ELSE <<>>)
         \o cpu_events(v, i + 1)

\* the body of "for k, v in self.tegra_stats.items()"
field_events(k, v) ==
    (IF k = K_GPU_UTIL THEN Scalar(v, K_GPU_UTIL, M_gpu_util) ELSE <<>>)
    \o (IF k = K_GPU_FREQ THEN gpu_freq_events(v, 1) ELSE <<>>)
    \o (IF k = K_GPU_TEMP THEN Scalar(v, K_GPU_TEMP, M_gpu_temp) ELSE <<>>)
    \o (IF k = K_CPU_TEMP THEN Scalar(v, K_CPU_TEMP, M_cpu_temp) ELSE <<>>)
    \o (IF k = K_CPU THEN cpu_events(v, 1) ELSE <<>>)
    \o (IF k = K_RAM THEN Scalar(v, K_RAM, M_ram_usage) ELSE <<>>)
    \o (IF k = K_EMC_FREQ THEN Scalar(v, K_EMC_FREQ, M_emc_freq) ELSE <<>>)
    \o (IF k = K_EMC_UTIL THEN Scalar(v, K_EMC_UTIL, M_emc_util) ELSE <<>>)
    \o (IF k = K_NVENC THEN Scalar(v, K_NVENC, M_nvenc_freq) ELSE <<>>)
    \o (IF k = K_NVENC1 THEN Scalar(v, K_NVENC1, M_nvenc1_freq) ELSE <<>>)
    \o (IF k = K_NVDEC THEN Scalar(v, K_NVDEC, M_nvdec_freq) ELSE <<>>)
    \o (IF k = K_NVDEC1 THEN Scalar(v, K_NVDEC1, M_nvdec1_freq) ELSE <<>>)

RECURSIVE tegra_events(_, _)
tegra_events(stats, i) ==
    IF i > Len(stats.keys) THEN <<>>
    ELSE field_events(stats.keys[i], stats.vals[i]) \o tegra_events(stats, i + 1)

RECURSIVE process_events(_, _)
process_events(usage, i) ==
    IF i > Len(usage.keys) THEN <<>>
    ELSE <<Emit(store_gpu_event(PyInt(usage.vals[i]), usage.keys[i],
                                M_per_process_gpu_mem, FALSE, 0),
                TRUE, usage.keys[i], M_per_process_gpu_mem)>>
         \o process_events(usage, i + 1)

\* GpuModule._produce_gpu_event: its store calls, in order
produce_gpu_event(stats, usage) ==
    tegra_events(stats, 1) \o process_events(usage, 1)

\* the orders in which a Python set may be iterated
Orders(S) ==
    {f \in [1..Cardinality(S) -> S] : \A i, j \in 1..Cardinality(S) : f[i] = f[j] => i = j}

\* _nullify_gpu_data with the name and the key of store_gpu_event exchanged
RECURSIVE nullify_swapped(_, _)
nullify_swapped(ms, i) ==
    IF i > Len(ms.keys) THEN {<<>>}
    ELSE LET metric_name == ms.keys[i]
             zero(metric_key) ==
                 Emit(store_gpu_event(PyFloat(0), metric_key, metric_name, FALSE, 0),
                      FALSE, <<>>, <<>>)
         IN  {[j \in 1..Len(o) |-> zero(o[j])] \o rest :
                  o \in Orders(ms.vals[i]), rest \in nullify_swapped(ms, i + 1)}

\* GpuModule._nullify_gpu_data: its store calls; the keys of metric_set in
\* insertion order, the identities of one key in any order
RECURSIVE nullify_gpu_data(_, _)
nullify_gpu_data(ms, i) ==
    IF i > Len(ms.keys) THEN {<<>>}
    ELSE LET metric_name == ms.keys[i]
             zero(metric_key) ==
                 Emit(store_gpu_event(PyFloat(0), metric_name, metric_key, FALSE, 0),
                      FALSE, <<>>, <<>>)
         IN  {[j \in 1..Len(o) |-> zero(o[j])] \o rest :
                  o \in Orders(ms.vals[i]), rest \in nullify_gpu_data(ms, i + 1)}

\* metric_set[k] = {id} in place of the add
metric_set_assign(ms, k, id) == Put(ms, k, {id})

\* self.metric_set[k].add(id) on the defaultdict(set)
metric_set_add(ms, k, id) ==
    IF Has(ms, k) THEN Put(ms, k, Get(ms, k) \cup {id}) ELSE Put(ms, k, {id})

-----------------------------------------------------------------------------
(* DataBaseProm.store *)

\* the keys of the help_text table
HelpText ==
    {M_gpu_util, M_gpu_freq, M_gpu_temp, M_cpu_temp, M_cpu_usage, M_ram_usage,
     M_emc_util, M_emc_freq, M_nvenc_freq, M_nvenc1_freq, M_nvdec_freq,
     M_nvdec1_freq, M_per_process_gpu_mem}

\* float(msg["value"]): a str converts when it is a run of digits (the
\* inputs of the model hold no sign, point or exponent)
IsFloat(value) == value.ty # "str" \/ IsInt(value.v)

ToFloat(value) == IF value.ty = "str" THEN ToInt(value.v) ELSE value.v

\* the label values of the series: labels(label=msg.get("label", "none"),
\* index=msg.get("index", "0")), each rendered with str()
SeriesOf(msg) ==
    <<Lower(msg.key), msg.label, IF msg.has_index THEN Str(msg.index) ELSE <<"0">>>>

-----------------------------------------------------------------------------
(* What the two subprocesses may print *)

\* stdout of "sudo timeout 0.2 tegrastats ..."
TegraOutputs ==
    << <<"G", "R", "3", "D", "_", "F", "R", "E", "Q", " ", "4", "5", "%", "@", "[", "2", "0", "4", ",", "3", "0", "6", "]", " ", "c", "p", "u", "@", "4", "5", "C", "\n">>,
       <<"R", "A", "M", " ", "N", "/", "A", " ", "c", "p", "u", "@", "4", "5", "C", " ", "C", "P", "U", " ", "[", "o", "f", "f", ",", "1", "0", "%", "@", "1", "0", "2", "]", " ", "C", "P", "U", " ", "[", "2", "0", "%", "@", "1", "0", "2", "]", " ", "G", "P", "U", "@", "4", "0", "C", "\n">>,
       <<"c", "p", "u", "@", "5", "0", "C", " ", "N", "V", "E", "N", "C", "\n">>,
       <<>>,
       <<"G", "P", "U", "@", "4", "0", "C", " ", "R", "A", "M", "\n">> >>

\* stdout of "sudo cat /sys/kernel/debug/nvmap/iovmm/clients"
ClientsOutputs ==
    << <<"C", "L", "I", "E", "N", "T", " ", "P", "R", "O", "C", "E", "S", "S", " ", "P", "I", "D", " ", "S", "I", "Z", "E", "\n", "u", "s", "e", "r", " ", "r", "o", "s", "i", "e", " ", "2", "7", " ", "7", "5", "K", "\n", "t", "o", "t", "a", "l", " ", "7", "5", "K", "\n">>,
       <<"C", "L", "I", "E", "N", "T", " ", "P", "R", "O", "C", "E", "S", "S", " ", "P", "I", "D", " ", "S", "I", "Z", "E", "\n", "u", "s", "e", "r", " ", "r", "o", "s", "i", "e", " ", "2", "7", "\n", "t", "o", "t", "a", "l", " ", "7", "5", "K", "\n">>,
       <<>>,
       <<"C", "L", "I", "E", "N", "T", " ", "P", "R", "O", "C", "E", "S", "S", " ", "P", "I", "D", " ", "S", "I", "Z", "E", "\n", "u", "s", "e", "r", " ", "r", "o", "s", "i", "e", " ", "2", "7", " ", "7", "5", "K", "\n", "\n">> >>

\* how many of its outputs above tegrastats draws from
MaxTegra == 4

Min(a, b) == IF a < b THEN a ELSE b

TegraInputs == {TegraOutputs[i] : i \in 1..Min(MaxTegra, Len(TegraOutputs))}
ClientsInputs == {ClientsOutputs[i] : i \in 1..Len(ClientsOutputs)}

\* how an invocation ends: output with exit status 0, output with a nonzero
\* exit status, no answer within the caller's timeout, bytes that are not UTF-8
Outcomes == {"ok", "nonzero", "timeout", "undecodable"}

-----------------------------------------------------------------------------
(* State *)

VARIABLES
    pc,                 \* where the worker of _process_gpu_stats_forever stands
    tegra_stats,        \* self.tegra_stats: the raw str, then the parsed dict
    per_process_usage,  \* self.per_process_usage: the raw str, then the dict
    metric_set,         \* self.metric_set
    metrics_map,        \* the names of DataBaseProm._metrics_map, the gauges of REGISTRY
    registry,           \* how many Gauge(...) each name has been constructed with
    killpg,             \* os.killpg has signalled the group of the tick's tegrastats
    series,             \* the labelled children of the gauges and their values
    queue,              \* the store calls of the running loop of the tick
    qi,                 \* the call of queue the worker is at
    spc,                \* where the worker stands inside store
    tegra_outcome,      \* how the tegrastats invocation of the tick ended
    clients_outcome,    \* how the per-process read of the tick ended
    failed_stage,       \* the stage that raised in the tick
    result,             \* how the last tick ended, until the next one starts
    start_map,          \* metrics_map when the tick started
    start_series,       \* series when the tick started
    start_set,          \* metric_set when the tick started
    touched,            \* the series the tick has set a value on
    scrape              \* what the last scrape during the tick read

vars == <<pc, tegra_stats, per_process_usage, metric_set, metrics_map, registry, series,
          queue, qi, spc, tegra_outcome, clients_outcome, failed_stage, result,
          start_map, start_series, start_set, touched, scrape, killpg>>

worker == <<pc, tegra_stats, per_process_usage, metric_set, queue, qi, spc,
            tegra_outcome, clients_outcome, failed_stage, result,
            start_map, start_series, start_set, touched, killpg>>

history == <<tegra_outcome, clients_outcome, failed_stage, start_map,
             start_series, start_set, killpg>>

RawStr(s) == [ty |-> "str", v |-> s]
Dict(d) == [ty |-> "dict", v |-> d]

NoSeries == [id \in {} |-> 0]
NoScrape == [taken |-> FALSE, metrics |-> {}, series |-> NoSeries]

\* GpuModule.__init__ and DataBaseProm.__init__
Init ==
    /\ pc = "Idle"
    /\ tegra_stats = Dict(EmptyDict)
    /\ per_process_usage = Dict(EmptyDict)
    /\ metric_set = EmptyDict
    /\ metrics_map = {}
    /\ registry = NoSeries
    /\ killpg = FALSE
    /\ series = NoSeries
    /\ queue = <<>>
    /\ qi = 1
    /\ spc = "lookup"
    /\ tegra_outcome = "none"
    /\ clients_outcome = "none"
    /\ failed_stage = "none"
    /\ result = "none"
    /\ start_map = {}
    /\ start_series = NoSeries
    /\ start_set = EmptyDict
    /\ touched = {}
    /\ scrape = NoScrape

-----------------------------------------------------------------------------
(* The worker: GpuModule._process_gpu_stats_forever *)

\* time.sleep(self.log_parsing_period): a tick starts
Sleep ==
    /\ pc = "Idle"
    /\ pc' = "GetTegra"
    /\ tegra_outcome' = "none"
    /\ clients_outcome' = "none"
    /\ failed_stage' = "none"
    /\ result' = "none"
    /\ start_map' = metrics_map
    /\ start_series' = series
    /\ start_set' = metric_set
    /\ touched' = {}
    /\ queue' = <<>>
    /\ qi' = 1
    /\ scrape' = NoScrape
    /\ killpg' = FALSE
    /\ UNCHANGED <<tegra_stats, per_process_usage, metric_set, metrics_map, registry,
                   series, spc>>

\* the stage that raised is entered again in the same tick
Raised_retry(stage) ==
    /\ pc' = stage
    /\ failed_stage' = stage

\* no outer "except Exception": the exception ends the worker
Raised_escapes(stage) ==
    /\ pc' = "Stopped"
    /\ failed_stage' = stage

\* an exception reaches the outer "except Exception" of the loop
Raised(stage) ==
    /\ pc' = "Failing"
    /\ failed_stage' = stage

\* GpuModule._get_tegra_stats: communicate(timeout=1) raises on a timeout,
\* decode raises on bytes that are not UTF-8, the exit status is never read;
\* os.killpg is called in the handler of the first "try" only
get_tegra_stats(outcome, output) ==
    /\ pc = "GetTegra"
    /\ tegra_outcome' = outcome
    /\ killpg' = (outcome = "timeout")
    /\ IF outcome \in {"timeout", "undecodable"}
       THEN /\ tegra_stats' = RawStr(<<>>)
            /\ Raised("GetTegra")
       ELSE /\ tegra_stats' = RawStr(Strip(output))
            /\ pc' = "ParseTegra"
            /\ UNCHANGED failed_stage
    /\ UNCHANGED <<per_process_usage, metric_set, metrics_map, registry, series, queue, qi, spc,
                   clients_outcome, result, start_map, start_series, start_set,
                   touched, scrape>>

\* the token walk without its "raise e": the fields parsed before the
\* exception become the sample
parse_tegra_partial ==
    /\ pc = "ParseTegra"
    /\ \E r \in {tokenize(tegra_stats.v)} :
           /\ tegra_stats' = Dict(r.buf)
           /\ pc' = "GetClients"
           /\ UNCHANGED failed_stage
    /\ UNCHANGED <<per_process_usage, metric_set, metrics_map, registry, series, queue, qi, spc,
                   tegra_outcome, clients_outcome, result, start_map, start_series,
                   start_set, touched, scrape, killpg>>

\* lines 277-289: the token walk over the whole line
parse_tegra ==
    /\ pc = "ParseTegra"
    /\ \E r \in {tokenize(tegra_stats.v)} :
           IF r.raised
           THEN /\ Raised("ParseTegra")
                /\ UNCHANGED tegra_stats
           ELSE /\ tegra_stats' = Dict(r.buf)
                /\ pc' = "GetClients"
                /\ UNCHANGED failed_stage
    /\ UNCHANGED <<per_process_usage, metric_set, metrics_map, registry, series, queue, qi, spc,
                   tegra_outcome, clients_outcome, result, start_map, start_series,
                   start_set, touched, scrape, killpg>>

\* _get_per_process_gpu_stats with the TimeoutExpired swallowed
get_per_process_gpu_stats_swallow(outcome, output) ==
    /\ pc = "GetClients"
    /\ clients_outcome' = outcome
    /\ IF outcome = "undecodable"
       THEN /\ per_process_usage' = [ty |-> "dict", v |-> EmptyDict]
            /\ pc' = "Failing"
            /\ failed_stage' = "GetClients"
       ELSE /\ per_process_usage' =
                   [ty |-> "str", v |-> IF outcome = "timeout" THEN <<>> ELSE Strip(output)]
            /\ pc' = "ParseClients"
            /\ UNCHANGED failed_stage
    /\ UNCHANGED <<tegra_stats, metric_set, metrics_map, registry, series, queue, qi, spc,
                   tegra_outcome, result, start_map, start_series, start_set,
                   touched, scrape, killpg>>

\* GpuModule._get_per_process_gpu_stats: subprocess.run(timeout=1) without
\* check=True raises on a timeout only, decode raises on bytes that are not UTF-8
get_per_process_gpu_stats(outcome, output) ==
    /\ pc = "GetClients"
    /\ clients_outcome' = outcome
    /\ IF outcome \in {"timeout", "undecodable"}
       THEN /\ per_process_usage' = Dict(EmptyDict)
            /\ Raised("GetClients")
       ELSE /\ per_process_usage' = RawStr(Strip(output))
            /\ pc' = "ParseClients"
            /\ UNCHANGED failed_stage
    /\ UNCHANGED <<tegra_stats, metric_set, metrics_map, registry, series, queue, qi, spc,
                   tegra_outcome, result, start_map, start_series, start_set,
                   touched, scrape, killpg>>

\* the per-process parse without the "raise e": what was parsed is dispatched
parse_per_process_partial ==
    /\ pc = "ParseClients"
    /\ \E r \in {parse_per_process_gpu_stats(per_process_usage.v)} :
           /\ per_process_usage' = [ty |-> "dict", v |-> r.map]
           /\ pc' = "Dispatch"
           /\ failed_stage' = IF r.raised THEN "ParseClients" ELSE failed_stage
    /\ UNCHANGED <<tegra_stats, metric_set, metrics_map, registry, series, queue, qi, spc,
                   tegra_outcome, clients_outcome, result, start_map, start_series,
                   start_set, touched, scrape, killpg>>

\* lines 297-301
parse_per_process ==
    /\ pc = "ParseClients"
    /\ \E r \in {parse_per_process_gpu_stats(per_process_usage.v)} :
           IF r.raised
           THEN /\ Raised("ParseClients")
                /\ UNCHANGED per_process_usage
           ELSE /\ per_process_usage' = Dict(r.map)
                /\ pc' = "Dispatch"
                /\ UNCHANGED failed_stage
    /\ UNCHANGED <<tegra_stats, metric_set, metrics_map, registry, series, queue, qi, spc,
                   tegra_outcome, clients_outcome, result, start_map, start_series,
                   start_set, touched, scrape, killpg>>

\* the loop without its time.sleep: the next collection follows at once
Finish_resample(how) ==
    /\ pc' = "GetTegra"
    /\ result' = how

\* the tick is over: back to the sleep
Finish(how) ==
    /\ pc' = "Idle"
    /\ result' = how

\* _produce_gpu_event setting every series to 0.0 before its loops
begin_produce_reset ==
    /\ pc = "Dispatch"
    /\ queue' = produce_gpu_event(tegra_stats.v, per_process_usage.v)
    /\ qi' = 1
    /\ series' = [id \in DOMAIN series |-> 0]
    /\ IF queue' = <<>> THEN Finish("ok")
       ELSE pc' = "Dispatching" /\ UNCHANGED result
    /\ UNCHANGED <<tegra_stats, per_process_usage, metric_set, metrics_map, registry, spc,
                   tegra_outcome, clients_outcome, failed_stage, start_map,
                   start_series, start_set, touched, scrape, killpg>>

\* lines 303-307: _produce_gpu_event is entered
begin_produce ==
    /\ pc = "Dispatch"
    /\ queue' = produce_gpu_event(tegra_stats.v, per_process_usage.v)
    /\ qi' = 1
    /\ IF queue' = <<>> THEN Finish("ok")
       ELSE pc' = "Dispatching" /\ UNCHANGED result
    /\ UNCHANGED <<tegra_stats, per_process_usage, metric_set, metrics_map, registry, series, spc,
                   tegra_outcome, clients_outcome, failed_stage, start_map,
                   start_series, start_set, touched, scrape, killpg>>

\* lines 309-310: _nullify_gpu_data is entered
begin_nullify ==
    /\ pc = "Failing"
    /\ queue' \in nullify_gpu_data(metric_set, 1)
    /\ qi' = 1
    /\ IF queue' = <<>> THEN Finish("failed")
       ELSE pc' = "Zeroing" /\ UNCHANGED result
    /\ UNCHANGED <<tegra_stats, per_process_usage, metric_set, metrics_map, registry, series, spc,
                   tegra_outcome, clients_outcome, failed_stage, start_map,
                   start_series, start_set, touched, scrape, killpg>>

InStore == pc \in {"Dispatching", "Zeroing"}

\* store has returned: the add of _produce_gpu_event, then the next call of
\* the loop or the end of the tick
Returned ==
    /\ metric_set' = IF queue[qi].add
                     THEN metric_set_add(metric_set, queue[qi].ms_key, queue[qi].ms_id)
                     ELSE metric_set
    /\ qi' = qi + 1
    /\ spc' = "lookup"
    /\ IF qi = Len(queue)
       THEN Finish(IF pc = "Dispatching" THEN "ok" ELSE "failed")
       ELSE UNCHANGED <<pc, result>>

\* Gauge(metrics_name, ..., registry=REGISTRY): one more gauge of the name
Registered(reg, name) ==
    IF name \in DOMAIN reg THEN [reg EXCEPT ![name] = @ + 1] ELSE (name :> 1) @@ reg

\* store without the lookups in _metrics_map and help_text: every call
\* constructs a gauge of its name
store_register_unchecked ==
    /\ InStore /\ spc = "lookup"
    /\ LET metrics_name == Lower(queue[qi].msg.key)
       IN  /\ metrics_map' = metrics_map \cup {metrics_name}
           /\ registry' = Registered(registry, metrics_name)
    /\ spc' = "labels"
    /\ UNCHANGED <<metric_set, qi, pc, result>>
    /\ UNCHANGED <<tegra_stats, per_process_usage, series, queue, touched, scrape>>
    /\ UNCHANGED history

\* DataBaseProm.store, lines 51-79: the gauge of the name is looked up and,
\* when missing, created and registered; an unknown name returns
store_register ==
    /\ InStore /\ spc = "lookup"
    /\ LET metrics_name == Lower(queue[qi].msg.key)
       IN  IF metrics_name \in metrics_map
           THEN /\ spc' = "labels"
                /\ UNCHANGED <<metrics_map, registry, metric_set, qi, pc, result>>
           ELSE IF metrics_name \notin HelpText
           THEN /\ Returned
                /\ UNCHANGED <<metrics_map, registry>>
           ELSE /\ metrics_map' = metrics_map \cup {metrics_name}
                /\ registry' = Registered(registry, metrics_name)
                /\ spc' = "labels"
                /\ UNCHANGED <<metric_set, qi, pc, result>>
    /\ UNCHANGED <<tegra_stats, per_process_usage, series, queue, touched, scrape>>
    /\ UNCHANGED history

\* DataBaseProm.store, lines 82-84: labels() creates the child at 0.0
store_labels ==
    /\ InStore /\ spc = "labels"
    /\ LET id == SeriesOf(queue[qi].msg)
       IN  series' = IF id \in DOMAIN series THEN series ELSE (id :> 0) @@ series
    /\ spc' = "set"
    /\ UNCHANGED <<pc, tegra_stats, per_process_usage, metric_set, metrics_map, registry,
                   queue, qi,
                   result, touched, scrape>>
    /\ UNCHANGED history

\* store without the try around set(float(value)): the ValueError reaches
\* the loop
store_set_raises ==
    /\ pc \in {"Dispatching", "Zeroing"} /\ spc = "set"
    /\ LET id == SeriesOf(queue[qi].msg)
           value == queue[qi].msg.value
       IN  IF IsFloat(value)
           THEN /\ series' = [series EXCEPT ![id] = ToFloat(value)]
                /\ touched' = touched \cup {id}
                /\ metric_set' = IF queue[qi].add
                                 THEN metric_set_add(metric_set, queue[qi].ms_key,
                                                     queue[qi].ms_id)
                                 ELSE metric_set
                /\ qi' = qi + 1
                /\ spc' = "lookup"
                /\ IF qi = Len(queue)
                   THEN /\ pc' = "Idle"
                        /\ result' = IF pc = "Dispatching" THEN "ok" ELSE "failed"
                   ELSE UNCHANGED <<pc, result>>
                /\ UNCHANGED failed_stage
           ELSE /\ pc' = "Failing"
                /\ failed_stage' = "Dispatch"
                /\ spc' = "lookup"
                /\ UNCHANGED <<series, touched, metric_set, qi, result>>
    /\ UNCHANGED <<tegra_stats, per_process_usage, metrics_map, registry, queue, scrape>>
    /\ UNCHANGED <<tegra_outcome, clients_outcome, start_map, start_series, start_set,
                   killpg>>

\* DataBaseProm.store, lines 85-88: set(float(value)), a failed conversion
\* is logged and the value left as it was
store_set ==
    /\ InStore /\ spc = "set"
    /\ LET id == SeriesOf(queue[qi].msg)
           value == queue[qi].msg.value
       IN  IF IsFloat(value)
           THEN /\ series' = [series EXCEPT ![id] = ToFloat(value)]
                /\ touched' = touched \cup {id}
           ELSE UNCHANGED <<series, touched>>
    /\ Returned
    /\ UNCHANGED <<tegra_stats, per_process_usage, metrics_map, registry, queue, scrape>>
    /\ UNCHANGED history

WorkerNext ==
    \/ Sleep
    \/ \E outcome \in Outcomes, output \in TegraInputs : get_tegra_stats(outcome, output)
    \/ parse_tegra
    \/ \E outcome \in Outcomes, output \in ClientsInputs :
           get_per_process_gpu_stats(outcome, output)
    \/ parse_per_process
    \/ begin_produce
    \/ begin_nullify
    \/ store_register
    \/ store_labels
    \/ store_set

\* the exposition thread of start_http_server: a scrape reads the registry
\* without taking _metrics_map_lock
Scrape ==
    /\ pc # "Idle"
    /\ scrape' = [taken |-> TRUE, metrics |-> metrics_map, series |-> series]
    /\ scrape' # scrape
    /\ UNCHANGED <<metrics_map, registry, series>>
    /\ UNCHANGED worker

Next == WorkerNext

Spec == Init /\ [][Next]_vars

NextScrape == WorkerNext \/ Scrape

SpecScrape == Init /\ [][NextScrape]_vars

\* the worker thread runs whenever it can: the sleep ends, both subprocess
\* calls are bounded by timeout=1, every loop is over a finite collection
FairSpec == Spec /\ WF_vars(WorkerNext)

-----------------------------------------------------------------------------
(* Vocabulary of the properties *)

TickOver == pc = "Idle" /\ result # "none"
TickOk == pc = "Idle" /\ result = "ok"
TickFailed == pc = "Idle" /\ result = "failed"

IsZero(value) == value.ty = "float" /\ value.v = 0

\* the store call re-emits 0.0 for an identity metric_set held when the tick started
ZeroOfKnown(call) ==
    /\ IsZero(call.msg.value)
    /\ ~call.add
    /\ Has(start_set, call.msg.label)
    /\ call.msg.key \in Get(start_set, call.msg.label)

\* every store call of the tick so far is such a re-emission, and no series
\* exists or holds a value other than 0.0 that it did not before the tick
ZerosOnly ==
    /\ \A i \in 1..Len(queue) : ZeroOfKnown(queue[i])
    /\ metrics_map = start_map
    /\ DOMAIN series = DOMAIN start_series
    /\ \A id \in DOMAIN series : series[id] # start_series[id] => series[id] = 0

\* the series (name, label, index) holds the value, when the value converts
Delivered(name, label, index, value) ==
    LET id == <<name, label, index>>
    IN  /\ id \in DOMAIN series
        /\ IsFloat(value) => series[id] = ToFloat(value) /\ id \in touched

\* the metric name of each field key (the table of the dispatcher)
MetricOf(k) ==
    CASE k = K_GPU_UTIL -> M_gpu_util
      [] k = K_GPU_FREQ -> M_gpu_freq
      [] k = K_GPU_TEMP -> M_gpu_temp
      [] k = K_CPU_TEMP -> M_cpu_temp
      [] k = K_CPU -> M_cpu_usage
      [] k = K_RAM -> M_ram_usage
      [] k = K_EMC_FREQ -> M_emc_freq
      [] k = K_EMC_UTIL -> M_emc_util
      [] k = K_NVENC -> M_nvenc_freq
      [] k = K_NVENC1 -> M_nvenc1_freq
      [] k = K_NVDEC -> M_nvdec_freq
      [] k = K_NVDEC1 -> M_nvdec1_freq

\* every field of the parsed sample and every process of the parsed map has
\* reached its series
AllParsedDelivered ==
    /\ tegra_stats.ty = "dict" /\ per_process_usage.ty = "dict"
    /\ \A i \in 1..Len(tegra_stats.v.keys) :
          LET k == tegra_stats.v.keys[i]
              v == tegra_stats.v.vals[i]
          IN  IF k \in {K_GPU_FREQ, K_CPU}
              THEN \A j \in 1..Len(v) :
                      v[j] # K_off => Delivered(MetricOf(k), k, Str(j - 1), PyStr(v[j]))
              ELSE Delivered(MetricOf(k), k, <<"0">>, PyStr(v))
    /\ \A i \in 1..Len(per_process_usage.v.keys) :
          Delivered(M_per_process_gpu_mem, per_process_usage.v.keys[i], <<"0">>,
                    PyInt(per_process_usage.v.vals[i]))

AfterFailure == pc \in {"Failing", "Zeroing", "Idle"} /\ result # "ok"

-----------------------------------------------------------------------------
(* C1 *)

\* C1: at the end of a failing tick every series of the sink holds 0.0, the
\* per-index series of tegrastats_gpu_freq and tegrastats_cpu_usage included
\* (a series that never received a value holds 0.0 since its creation).
C1_FailedTickZeroesEverySeries ==
    TickFailed => \A id \in DOMAIN series : series[id] = 0

(* C2 *)

\* the series of the identities of ms that name a metric of the sink: the
\* identities recorded without an index
UnindexedSeries(ms) ==
    UNION {{<<id, ms.keys[i], <<"0">>>> : id \in ms.vals[i] \cap HelpText} :
              i \in 1..Len(ms.keys)}

\* C2: a failing tick registers no metric and creates no series, changes only
\* series that existed before it, and only to 0.0; when it ends, the series it
\* has set are exactly the ones recorded in metric_set under a metric name of
\* the sink (GPU_UTIL and CPU_TEMP are two of those), each now 0.0.
C2_FailingTickTouchesOnlyKnownSeries ==
    /\ failed_stage # "none" =>
          /\ metrics_map = start_map
          /\ DOMAIN series = DOMAIN start_series
          /\ touched \subseteq DOMAIN start_series
          /\ touched \subseteq UnindexedSeries(start_set)
          /\ \A id \in DOMAIN series :
                IF id \in touched THEN series[id] = 0 ELSE series[id] = start_series[id]
    /\ TickFailed => touched = UnindexedSeries(start_set)

C2_Witness ==
    /\ TickFailed
    /\ <<M_gpu_util, K_GPU_UTIL, <<"0">>>> \in touched
    /\ <<M_cpu_temp, K_CPU_TEMP, <<"0">>>> \in touched
    /\ \E id \in touched : start_series[id] # 0

(* C3 *)

\* C3: a tick in which a stage raised makes only 0.0 re-emissions of
\* identities known before it and leaves no fresh value in the sink; a tick
\* that ends without a raise has delivered every field it parsed.
C3_ZeroOrFull ==
    /\ failed_stage # "none" => AfterFailure /\ ZerosOnly
    /\ TickOk => failed_stage = "none" /\ AllParsedDelivered

C3_Witness ==
    /\ TickFailed
    /\ failed_stage = "ParseClients"
    /\ tegra_stats.ty = "dict" /\ Len(tegra_stats.v.keys) > 0
    /\ touched # {}

(* C4 *)

\* C4: once collecting or parsing has raised in a tick, the worker is in the
\* zeroing path or back at the sleep, no call of the tick comes from the
\* dispatcher, and a raise of a tegrastats stage leaves the per-process read
\* of that tick unattempted.
C4_NoDispatchAfterRaise ==
    failed_stage # "none" =>
        /\ failed_stage \in {"GetTegra", "ParseTegra", "GetClients", "ParseClients"}
        /\ pc \in {"Failing", "Zeroing", "Idle"}
        /\ \A i \in 1..Len(queue) : ~queue[i].add /\ IsZero(queue[i].msg.value)
        /\ failed_stage \in {"GetTegra", "ParseTegra"} => clients_outcome = "none"
        /\ failed_stage = "GetTegra" => tegra_stats = RawStr(<<>>)

C4_Witness ==
    /\ TickFailed
    /\ failed_stage = "ParseTegra"
    /\ Len(queue) > 0
    /\ clients_outcome = "none"

(* C5 *)

Failure == {"timeout", "undecodable", "nonzero"}

C6_LoopNeverStops == []<>(pc = "Idle") /\ []<>(pc = "GetTegra")

\* a tick succeeded after an earlier one had zeroed a per-process series
C6_Witness ==
    /\ TickOk
    /\ touched # {}
    /\ \E id \in DOMAIN series : id[1] = M_per_process_gpu_mem /\ series[id] = 0

(* C7 *)

\* C7: a tick that has entered the dispatcher stays in it until it ends
\* without a raise, and each call the dispatcher has made left its series at
\* the value of the call when the value converts and at what the series held
\* before the call otherwise.
C7_BadFieldIsSkipped ==
    /\ (Len(queue) > 0 /\ queue[1].add) => (pc = "Dispatching" \/ TickOk)
    /\ (pc = "Dispatching" \/ TickOk) =>
        /\ failed_stage = "none"
        /\ \A i \in 1..(qi - 1) :
              LET value == queue[i].msg.value
                  id == SeriesOf(queue[i].msg)
              IN  /\ id \in DOMAIN series
                  /\ series[id] = IF IsFloat(value) THEN ToFloat(value)
                                  ELSE IF id \in DOMAIN start_series
                                       THEN start_series[id] ELSE 0

C7_Witness ==
    /\ TickOk
    /\ \E i, j \in 1..Len(queue) :
          /\ i < j
          /\ ~IsFloat(queue[i].msg.value)
          /\ IsFloat(queue[j].msg.value)
          /\ series[SeriesOf(queue[j].msg)] = ToFloat(queue[j].msg.value)
          /\ series[SeriesOf(queue[j].msg)] # 0

(* C8 *)

\* the series changed between the start and the end of the tick
ChangedInTick(id) == id \notin DOMAIN start_series \/ start_series[id] # series[id]

\* the scrape read the series as the tick has left it
ReadNew(id) == id \in DOMAIN scrape.series /\ scrape.series[id] = series[id]

\* the scrape read the series as it was before the tick
ReadOld(id) ==
    IF id \in DOMAIN start_series
    THEN id \in DOMAIN scrape.series /\ scrape.series[id] = start_series[id]
    ELSE id \notin DOMAIN scrape.series

\* C8: no scrape taken during a tick read one series the tick changed as the
\* tick has left it and another one as it was before the tick.
C8_NoTornScrape ==
    (TickOver /\ scrape.taken) =>
        ~ \E a, b \in DOMAIN series :
              /\ ChangedInTick(a) /\ ReadNew(a)
              /\ ChangedInTick(b) /\ ReadOld(b)

(* C9 *)

\* C9: every metric a scrape finds registered has at least one labelled series.
C9_NoUnlabelledGauge ==
    scrape.taken =>
        \A name \in scrape.metrics : \E id \in DOMAIN scrape.series : id[1] = name

(* C10 *)

Includes(ms2, ms1) ==
    \A i \in 1..Len(ms1.keys) :
        Has(ms2, ms1.keys[i]) /\ ms1.vals[i] \subseteq Get(ms2, ms1.keys[i])

\* C10: no step removes a key or an identity from metric_set, and no step of
\* the zeroing path changes it.
C10_MetricSetOnlyGrows ==
    [][ /\ Includes(metric_set', metric_set)
        /\ pc \in {"Failing", "Zeroing"} => metric_set' = metric_set ]_vars

C10_Witness ==
    /\ TickFailed
    /\ Len(queue) > 2
    /\ \E i \in 1..Len(metric_set.keys) : Cardinality(metric_set.vals[i]) > 1

(* C11 *)

\* the store call the worker is about to look up names no metric of the table
UnknownNameCall == InStore /\ spc = "lookup" /\ Lower(queue[qi].msg.key) \notin HelpText

\* C11: every registered metric name is a key of the help_text table, has had
\* exactly one gauge constructed for it and owns every series of its name; a
\* store call whose name is not in the table changes neither the registered
\* metrics nor any series.
C11_OnlyKnownNamesRegistered ==
    /\ [](/\ metrics_map \subseteq HelpText
          /\ DOMAIN registry = metrics_map
          /\ \A name \in DOMAIN registry : registry[name] = 1
          /\ \A id \in DOMAIN series : id[1] \in metrics_map)
    /\ [][UnknownNameCall =>
              /\ metrics_map' = metrics_map
              /\ registry' = registry
              /\ series' = series]_vars

\* the zeroing path has made a call under a name the table does not hold
C11_Witness ==
    /\ pc = "Zeroing"
    /\ metrics_map # {}
    /\ \E i \in 1..(qi - 1) : Lower(queue[i].msg.key) \notin HelpText

(* C12 *)

\* the line has the form "user processname pid <kb>K"
IsDataLine(line) ==
    LET process_info == SplitWs(line)
    IN  /\ Len(process_info) = 4
        /\ Last(process_info[4]) = "K"
        /\ IsInt(DropLast(process_info[4]))

\* the map holds processname -> kb of the data line
HoldsLine(map, line) ==
    LET process_info == SplitWs(line)
    IN  /\ Has(map, process_info[2])
        /\ Get(map, process_info[2]) = ToInt(DropLast(process_info[4]))

\* C12: when the per-process parse of a tick succeeds, the map it leaves holds
\* an entry for every data line that follows the header of the collected
\* text, the last data line included.
C12_EveryDataLineParsed ==
    [][(pc = "ParseClients" /\ pc' = "Dispatch") =>
          LET lines == Split(per_process_usage.v, "\n")
          IN  \A i \in 2..Len(lines) :
                 IsDataLine(lines[i]) => HoldsLine(per_process_usage'.v, lines[i])]_vars

(* C13 *)

\* the tokens of the line the tick collected, while it waits to be parsed
RawTokens == Split(tegra_stats.v, " ")

\* the tokenizer has just turned the collected line into the sample
Tokenized == pc = "ParseTegra" /\ pc' = "GetClients"

HasCpuField(tokens) == \E p \in 1..(Len(tokens) - 1) : tokens[p] = K_CPU

\* the place of the first CPU field key of the line (in the lines of the
\* model no field key stands in the place of a payload)
FirstCpuField(tokens) ==
    CHOOSE p \in 1..(Len(tokens) - 1) :
        tokens[p] = K_CPU /\ \A q \in 1..(p - 1) : tokens[q] # K_CPU

\* the comma-separated entries of a payload "[e1,...,ek]"
Entries(payload) ==
    LET body == SelectSeq(payload, LAMBDA c : c \notin {"[", "]"})
        commas == {i \in 1..Len(body) : body[i] = ","}
        start(n) == IF n = 1 THEN 1
                    ELSE 1 + CHOOSE i \in commas : Cardinality({j \in commas : j < i}) = n - 2
        stop(n) == IF n = Cardinality(commas) + 1 THEN Len(body)
                   ELSE (CHOOSE i \in commas : Cardinality({j \in commas : j < i}) = n - 1) - 1
    IN  [n \in 1..(Cardinality(commas) + 1) |-> SubSeq(body, start(n), stop(n))]

\* cores is the per-core sequence of the payload: one entry per entry of the
\* payload, in order, "off" or the text before the "%"
IsCoresOf(cores, payload) ==
    LET e == Entries(payload)
    IN  /\ Len(cores) = Len(e)
        /\ \A n \in 1..Len(e) :
              IF e[n] = K_off THEN cores[n] = K_off
              ELSE /\ "%" \notin {cores[n][i] : i \in 1..Len(cores[n])}
                   /\ Len(e[n]) > Len(cores[n])
                   /\ SubSeq(e[n], 1, Len(cores[n]) + 1) = cores[n] \o <<"%">>

\* the calls of the tick that carry the metric name
CallsOf(name) == {i \in 1..Len(queue) : queue[i].msg.key = name}

\* C13: the tokenizer turns the payload of the CPU field into a per-core
\* sequence with one entry per entry of the payload, in order; the dispatcher
\* calls the sink for tegrastats_cpu_usage once for each core that is not off,
\* with the core's position as index and its entry as value, and for no other
\* index.
C13_CoresKeepTheirPositions ==
    /\ [][(Tokenized /\ HasCpuField(RawTokens)) =>
              /\ Has(tegra_stats'.v, K_CPU)
              /\ IsCoresOf(Get(tegra_stats'.v, K_CPU),
                           RawTokens[FirstCpuField(RawTokens) + 1])]_vars
    /\ []((pc = "Dispatching" \/ TickOk) /\ Has(tegra_stats.v, K_CPU) =>
             LET cores == Get(tegra_stats.v, K_CPU)
             IN  /\ \A n \in 1..Len(cores) :
                       cores[n] # K_off =>
                          \E i \in CallsOf(M_cpu_usage) :
                              /\ queue[i].msg.has_index /\ queue[i].msg.index = n - 1
                              /\ queue[i].msg.value = PyStr(cores[n])
                 /\ \A i \in CallsOf(M_cpu_usage) :
                       /\ queue[i].msg.has_index
                       /\ queue[i].msg.index + 1 \in 1..Len(cores)
                       /\ cores[queue[i].msg.index + 1] # K_off
                 /\ Cardinality(CallsOf(M_cpu_usage)) =
                       Cardinality({n \in 1..Len(cores) : cores[n] # K_off}))

\* a tick ended with core 0 off and core 1 published under index 1
C13_Witness ==
    /\ TickOk
    /\ Has(tegra_stats.v, K_CPU)
    /\ Get(tegra_stats.v, K_CPU)[1] = K_off
    /\ <<M_cpu_usage, K_CPU, <<"1">>>> \in touched
    /\ series[<<M_cpu_usage, K_CPU, <<"1">>>>] = 10
    /\ <<M_cpu_usage, K_CPU, <<"0">>>> \notin DOMAIN series

(* C14 *)

\* the field keys whose branch reads the token after them
PayloadKeys == {K_RAM, K_CPU, K_EMC_FREQ, K_GR3D_FREQ, K_NVENC, K_NVENC1, K_NVDEC, K_NVDEC1}

\* the calls of _parse_tegra_stats the loop makes over the tokens: how many,
\* and what the last one returned
RECURSIVE Walk(_, _, _)
Walk(r, tokens, calls) ==
    IF r.raised \/ r.none THEN [calls |-> calls, last |-> r]
    ELSE Once(parse_tegra_stats(r.buf, tokens, r.pos),
              LAMBDA next : Walk(next, tokens, calls + 1))

WalkOf(tokens) == Walk(parse_tegra_stats(EmptyDict, tokens, 1), tokens, 1)

\* C14: the walk over the collected line makes at most one call per token
\* and one more, and when no call raises the last call finds every token
\* consumed and returns the sentinel; a line without fault raises as soon as
\* any payload-taking key is put after its last token; a line whose last
\* token is such a key sends the tick to the zeroing path, and a tick whose
\* tokenizer raised keeps no sample and makes only zeroing calls.
C14_WalkEndsAndMissingPayloadFails ==
    /\ [](pc = "ParseTegra" =>
             Once(WalkOf(RawTokens), LAMBDA w :
                 /\ w.calls <= Len(RawTokens) + 1
                 /\ ~w.last.raised =>
                       /\ w.last.none
                       /\ w.last.pos = Len(RawTokens) + 1
                       /\ \A k \in PayloadKeys :
                             tokenize(tegra_stats.v \o <<" ">> \o k).raised))
    /\ [][(pc = "ParseTegra" /\ Last(RawTokens) \in PayloadKeys) =>
              /\ pc' = "Failing"
              /\ failed_stage' = "ParseTegra"
              /\ tegra_stats' = tegra_stats]_vars
    /\ [](failed_stage = "ParseTegra" =>
             /\ AfterFailure /\ ZerosOnly
             /\ tegra_stats.ty = "str")

\* a tick whose line ends with NVENC has failed after parsing cpu@50C, and
\* its zeroing path has set a series
C14_Witness ==
    /\ TickFailed
    /\ failed_stage = "ParseTegra"
    /\ tegra_stats.ty = "str"
    /\ Len(RawTokens) > 1
    /\ Last(RawTokens) = K_NVENC
    /\ \E id \in touched : start_series[id] # 0

(* C15 *)

\* the line holds the field key once, with a token after it
HasOneField(tokens, key) ==
    /\ Cardinality({p \in 1..Len(tokens) : tokens[p] = key}) = 1
    /\ Last(tokens) # key

FieldPayload(tokens, key) == tokens[(CHOOSE p \in 1..Len(tokens) : tokens[p] = key) + 1]

\* the text before the first "%" and the text after the last "@"
BeforePercent(s) == SubSeq(s, 1, (CHOOSE i \in 1..Len(s) :
                                     s[i] = "%" /\ \A j \in 1..(i - 1) : s[j] # "%") - 1)
AfterAt(s) == SubSeq(s, (CHOOSE i \in 1..Len(s) :
                            s[i] = "@" /\ \A j \in (i + 1)..Len(s) : s[j] # "@") + 1, Len(s))

\* text is the decimal numeral of n
IsNumeral(text, n) == IsInt(text) /\ ToInt(text) = n /\ (Len(text) > 1 => text[1] # "0")

\* C15: the tokenizer turns the payload "U%@[f1,...,fk]" of GR3D_FREQ into
\* GPU_UTIL = U and GPU_FREQ = k numerals, the n-th of fn * 1000000; the
\* dispatcher calls the sink for tegrastats_gpu_freq once per cluster, the
\* n-th call with index n - 1 and the n-th numeral, so that k clusters reach k
\* distinct series, each holding its frequency in Hz when the tick ends.
C15_ClusterFrequenciesInHz ==
    /\ [][(Tokenized /\ HasOneField(RawTokens, K_GR3D_FREQ)) =>
              LET gpu_info == FieldPayload(RawTokens, K_GR3D_FREQ)
                  f == Entries(AfterAt(gpu_info))
                  sample == tegra_stats'.v
              IN  /\ Has(sample, K_GPU_UTIL) /\ Has(sample, K_GPU_FREQ)
                  /\ Get(sample, K_GPU_UTIL) = BeforePercent(gpu_info)
                  /\ Len(Get(sample, K_GPU_FREQ)) = Len(f)
                  /\ \A n \in 1..Len(f) :
                        IsNumeral(Get(sample, K_GPU_FREQ)[n], ToInt(f[n]) * 1000000)]_vars
    /\ []((pc = "Dispatching" \/ TickOk) /\ Has(tegra_stats.v, K_GPU_FREQ) =>
             LET gpu_freq == Get(tegra_stats.v, K_GPU_FREQ)
                 calls == CallsOf(M_gpu_freq)
             IN  /\ Cardinality(calls) = Len(gpu_freq)
                 /\ Cardinality({SeriesOf(queue[i].msg) : i \in calls}) = Len(gpu_freq)
                 /\ \A n \in 1..Len(gpu_freq) :
                       /\ \E i \in calls :
                             /\ SeriesOf(queue[i].msg) = <<M_gpu_freq, K_GPU_FREQ, Str(n - 1)>>
                             /\ queue[i].msg.value = PyStr(gpu_freq[n])
                             /\ \A j \in calls : j < i <=> queue[j].msg.index < n - 1
                       /\ TickOk => series[<<M_gpu_freq, K_GPU_FREQ, Str(n - 1)>>]
                                       = ToInt(gpu_freq[n]))

\* a tick has published 45 %, 204 MHz and 306 MHz of two clusters
C15_Witness ==
    /\ TickOk
    /\ <<M_gpu_freq, K_GPU_FREQ, <<"0">>>> \in touched
    /\ <<M_gpu_freq, K_GPU_FREQ, <<"1">>>> \in touched
    /\ series[<<M_gpu_freq, K_GPU_FREQ, <<"0">>>>] = 204000000
    /\ series[<<M_gpu_freq, K_GPU_FREQ, <<"1">>>>] = 306000000
    /\ series[<<M_gpu_util, K_GPU_UTIL, <<"0">>>>] = 45

(* C16 *)

IsCpuTempToken(token) == Contains(token, <<"C", "P", "U", "@">>) \/ Contains(token, <<"c", "p", "u", "@">>)

\* a CPU@/cpu@ temperature token stands before the first CPU field of the line
TempBeforeCpu(tokens) ==
    \E q \in 1..(FirstCpuField(tokens) - 1) : IsCpuTempToken(tokens[q])

\* C16: the sample holds the per-core sequence of the first CPU field of the
\* line, unless a CPU@/cpu@ temperature token stands before that field: then
\* the sample holds CPU_TEMP and no per-core sequence.
C16_CpuAfterTemperatureIgnored ==
    [][(Tokenized /\ HasCpuField(RawTokens)) =>
          IF TempBeforeCpu(RawTokens)
          THEN Has(tegra_stats'.v, K_CPU_TEMP) /\ ~Has(tegra_stats'.v, K_CPU)
          ELSE /\ Has(tegra_stats'.v, K_CPU)
               /\ IsCoresOf(Get(tegra_stats'.v, K_CPU),
                            RawTokens[FirstCpuField(RawTokens) + 1])]_vars

\* C16 as amended: the sample holds the per-core sequence of the first CPU
\* field of the line and of no later one, whether or not a CPU@/cpu@
\* temperature token stands before it; such a token adds CPU_TEMP to the
\* sample and takes nothing from it.
C16_OnlyFirstCpuFieldHonored ==
    [][(Tokenized /\ HasCpuField(RawTokens)) =>
          LET first == FirstCpuField(RawTokens)
          IN  /\ Has(tegra_stats'.v, K_CPU)
              /\ IsCoresOf(Get(tegra_stats'.v, K_CPU), RawTokens[first + 1])
              /\ \A p \in (first + 2)..(Len(RawTokens) - 1) :
                    (RawTokens[p] = K_CPU /\ RawTokens[p + 1] # RawTokens[first + 1])
                        => ~IsCoresOf(Get(tegra_stats'.v, K_CPU), RawTokens[p + 1])
              /\ TempBeforeCpu(RawTokens) => Has(tegra_stats'.v, K_CPU_TEMP)]_vars

\* the sample of a line "... cpu@45C CPU [off,10%@102] CPU [20%@102] ...":
\* CPU_TEMP was populated first, then the two cores of the first CPU field
C16_Witness ==
    /\ pc = "GetClients"
    /\ Has(tegra_stats.v, K_CPU_TEMP) /\ Has(tegra_stats.v, K_CPU)
    /\ IndexOf(tegra_stats.v, K_CPU_TEMP) < IndexOf(tegra_stats.v, K_CPU)
    /\ Get(tegra_stats.v, K_CPU) = <<K_off, <<"1", "0">>>>

(* C17 *)

None == <<"n", "o", "n", "e">>

\* the field keys of the dispatcher
FieldKeys ==
    {K_GPU_UTIL, K_GPU_FREQ, K_GPU_TEMP, K_CPU_TEMP, K_CPU, K_RAM, K_EMC_FREQ,
     K_EMC_UTIL, K_NVENC, K_NVENC1, K_NVDEC, K_NVDEC1}

IsIdentity(id) ==
    IF id[1] = M_per_process_gpu_mem THEN id[2] \notin FieldKeys /\ id[3] = <<"0">>
    ELSE id[2] \in FieldKeys /\ id[1] = MetricOf(id[2])

\* the identity a message names when its key is a metric name of the table
\* (those are in lower case already)
NamedBy(msg) ==
    <<msg.key, msg.label, IF msg.has_index THEN Str(msg.index) ELSE <<"0">>>>

Stages == <<"GetTegra", "ParseTegra", "GetClients", "ParseClients", "Dispatch">>

StageNo(p) == IF \E n \in 1..Len(Stages) : Stages[n] = p
              THEN CHOOSE n \in 1..Len(Stages) : Stages[n] = p
              ELSE Len(Stages) + 1

\* C18: the worker starts at the sleep; tegrastats is collected only by the
\* step that follows a sleep, and the only step from the sleep is into that
\* collection; a step taken in a stage leaves the stage, for a later stage of
\* the cycle or for the failure path, never for the same or an earlier one;
\* and a cycle in which a stage raised runs no stage again before the sleep.
C18_OneSleepOpensEveryCycle ==
    /\ pc = "Idle"
    /\ [][/\ pc' = "GetTegra" => pc = "Idle"
          /\ pc = "Idle" => pc' = "GetTegra"
          /\ StageNo(pc) <= Len(Stages) =>
                /\ StageNo(pc') > StageNo(pc)
                /\ pc' \in {"ParseTegra", "GetClients", "ParseClients", "Dispatch",
                            "Dispatching", "Failing", "Idle"}
          /\ pc \in {"Dispatching", "Failing", "Zeroing"} => StageNo(pc') > Len(Stages)
          /\ (failed_stage # "none" /\ pc # "Idle") =>
                pc' \in {"Failing", "Zeroing", "Idle"}]_vars

\* a cycle is collecting after the cycle before it failed and zeroed the
\* GPU utilization
C18_Witness ==
    /\ pc = "ParseTegra"
    /\ failed_stage = "none"
    /\ \E id \in DOMAIN start_series :
          id[1] = M_gpu_util /\ start_series[id] = 0 /\ series[id] = 0

(* C19 *)

\* C19: once the tegrastats invocation of a tick has ended by timeout or with
\* a nonzero exit status, the process group of the subprocess has been sent
\* the termination signal.
C19_GroupSignalledOnTimeoutOrNonzero ==
    tegra_outcome \in {"timeout", "nonzero"} => killpg

(* C20 *)

\* the series the calls of the tick name
Named == {NamedBy(queue[i].msg) : i \in 1..Len(queue)}

\* C20: while a tick dispatches and when it has succeeded, every series that
\* existed before the tick and that no call of the tick names still exists
\* and holds the value it held before the tick; no step removes a series, and
\* a step changes the value of a series only for the series of the call it
\* serves, or to 0.0 in the zeroing path.
C20_AbsentFieldsKeepTheirValue ==
    /\ []((pc = "Dispatching" \/ TickOk) =>
             \A id \in DOMAIN start_series :
                 id \notin Named => id \in DOMAIN series /\ series[id] = start_series[id])
    /\ [][\A id \in DOMAIN series :
              /\ id \in DOMAIN series'
              /\ series'[id] # series[id] =>
                    \/ pc = "Dispatching" /\ id = NamedBy(queue[qi].msg)
                    \/ pc = "Zeroing" /\ series'[id] = 0]_vars

\* a tick has succeeded without a process that an earlier tick had listed:
\* its series still holds the 75 KB of that tick
C20_Witness ==
    /\ TickOk
    /\ touched # {}
    /\ \E id \in DOMAIN start_series :
          /\ id[1] = M_per_process_gpu_mem
          /\ id \notin Named
          /\ series[id] = 75

=============================================================================
